---- MODULE Spec2Model ----
(***************************************************************************)
(* ILI9341 async display driver (src/src/ili9341_async.rs), its command    *)
(* table (src/src/command.rs), the reusable framebuffer                    *)
(* (src/src/framebuffer.rs) and the program that uses them                 *)
(* (src/src/main.rs).                                                      *)
(*                                                                         *)
(* The driver is a sequential program over three capabilities: output      *)
(* pins, an SPI device and a delay.  Every driver function is written here *)
(* as the sequence of capability calls it makes; a call that fails ends    *)
(* the sequence (the `?` operator).  One step of the model is one          *)
(* capability call, so every bus write and every delay is a step of its    *)
(* own.                                                                    *)
(*                                                                         *)
(* Four specifications: Spec (the driver called in any order), SpecFb (a   *)
(* framebuffer over one slice), SpecFlush (a framebuffer flushed through   *)
(* the driver) and SpecMain (main, render_task and read_dht12_task).       *)
(***************************************************************************)
EXTENDS Integers, Sequences, FiniteSets, TLC

VARIABLES
    inverted,       \* Ili9341.inverted
    orientation,    \* Ili9341.orientation
    height,         \* Ili9341.height
    width,          \* Ili9341.width
    dc,             \* level of the data/command pin
    rst,            \* level of the reset pin
    power,          \* level of the power/backlight pin
    call,           \* the public operation in progress, or the last one
    todo,           \* capability calls the operation in progress has still to make
    result,         \* what the operation returned
    log,            \* capability calls made by the operation, in order
    resetDone,      \* a hardware reset has completed since construction
    storage,        \* the caller's byte slice a framebuffer is built over
    fb,             \* the framebuffer: Framebuffer.size and the width of its color
    fbPc,           \* where the framebuffer's user is: "idle", "loop" (in draw_iter), "panic"
    fbGiven,        \* the arguments of the construction of fb
    fbLast,         \* the last framebuffer step: what it was given and the bytes before it
    mainPc,         \* where main is
    renderPc,       \* where render_task is
    renderIx,       \* the statement of render_task's set-up that comes next
    sensorPc,       \* where read_dht12_task is
    sensorVal,      \* the reading read_dht12_task is about to send
    chan,           \* CHANNEL: the readings sent and not yet received
    cur,            \* render_task: humidity and temperature of the reading received
    old,            \* render_task: old_humidity_value and old_temperature_value
    flushes,        \* the flushes render_task's set-up has completed, in order
    caller,         \* the task that made the call recorded in call
    panel           \* what the loop's flushes have left on the panel's two value fields

drvVars == <<inverted, orientation, height, width, dc, rst, power,
             call, todo, result, log, resetDone>>

fbVars == <<storage, fb, fbPc, fbGiven, fbLast>>

appVars == <<mainPc, renderPc, renderIx, sensorPc, sensorVal, chan, cur, old,
             flushes, caller, panel>>

vars == <<drvVars, fbVars, appVars>>

(***************************************************************************)
(* command.rs                                                              *)
(***************************************************************************)
\* 0x01
SOFTWARE_RESET == 1
\* 0x36
MEMORY_ACCESS_CONTROL == 54
\* 0x3a
PIXEL_FORMAT_SET == 58
\* 0x10
SLEEP_MODE_ON == 16
\* 0x11
SLEEP_MODE_OFF == 17
\* 0x20
INVERT_OFF == 32
\* 0x21
INVERT_ON == 33
\* 0x28
DISPLAY_OFF == 40
\* 0x29
DISPLAY_ON == 41
\* 0x2a
COLUMN_ADDRESS_SET == 42
\* 0x2b
PAGE_ADDRESS_SET == 43
\* 0x2c
MEMORY_WRITE == 44

(***************************************************************************)
(* Types of the driver                                                     *)
(***************************************************************************)
ModeState == {"On", "Off"}

Orientation == {"Potrait", "Landscape"}

\* embedded_hal::digital::ErrorKind and embedded_hal::spi::ErrorKind
DigitalErrorKind == {"Other"}

SpiErrorKind == {"Overrun", "Other"}

\* Config::default()
ConfigDefault ==
    [inverted_color |-> "On", orientation |-> "Landscape", height |-> 240, width |-> 320]

\* The configurations a driver is constructed with.
Configs ==
    {ConfigDefault,
     [inverted_color |-> "Off", orientation |-> "Landscape", height |-> 240, width |-> 320],
     [inverted_color |-> "On", orientation |-> "Potrait", height |-> 320, width |-> 240],
     [inverted_color |-> "Off", orientation |-> "Potrait", height |-> 320, width |-> 240]}

Levels == {"low", "high"}

\* enum Error
Ok == [tag |-> "Ok", kind |-> "-"]

Pending == [tag |-> "Pending", kind |-> "-"]

Panic == [tag |-> "Panic", kind |-> "-"]

\* impl From<E: SpiError> for Error
from_spi(kind) == [tag |-> "Spi", kind |-> kind]

\* Error::from_digital
from_digital(kind) == [tag |-> "Digital", kind |-> kind]

(***************************************************************************)
(* Capability calls                                                        *)
(***************************************************************************)
\* pin.set_low() / pin.set_high()
PinSet(pin, level) ==
    [op |-> "pin", fn |-> "", pin |-> pin, level |-> level,
     bytes |-> <<>>, kind |-> "-", ms |-> 0]

\* spi.write(bytes); kind tells what the bytes are: "opcode", "param" or "pixel"
SpiWrite(bytes, kind) ==
    [op |-> "spi", fn |-> "", pin |-> "-", level |-> "-",
     bytes |-> bytes, kind |-> kind, ms |-> 0]

\* delay.delay_ms(ms)
DelayMs(ms) ==
    [op |-> "delay", fn |-> "", pin |-> "-", level |-> "-",
     bytes |-> <<>>, kind |-> "-", ms |-> ms]

\* The calls of steps, marked as made by driver function f.
In(f, steps) == [i \in DOMAIN steps |-> [steps[i] EXCEPT !.fn = f]]

(***************************************************************************)
(* Driver functions, as the sequence of capability calls they make         *)
(***************************************************************************)
\* send_command without its first line (the select line is not driven low).
send_command_no_dc_low(command, data) ==
    <<SpiWrite(<<command>>, "opcode")>>
    \o (IF data # <<>>
        THEN <<PinSet("dc", "high"), SpiWrite(data, "param")>>
        ELSE <<>>)

\* send_command raising the select line and writing the payload even when the
\* payload is empty.
send_command_payload_always(command, data) ==
    <<PinSet("dc", "low"), SpiWrite(<<command>>, "opcode"),
      PinSet("dc", "high"), SpiWrite(data, "param")>>

\* Ili9341::send_command
send_command(command, data) ==
    <<PinSet("dc", "low"), SpiWrite(<<command>>, "opcode")>>
    \o (IF data # <<>>
        THEN <<PinSet("dc", "high"), SpiWrite(data, "param")>>
        ELSE <<>>)

hardware_reset ==
    In("hardware_reset",
       <<PinSet("rst", "low"), DelayMs(1), PinSet("rst", "high"), DelayMs(5)>>)

\* software_reset returning as soon as the opcode is written.
software_reset_no_wait ==
    In("software_reset", send_command(SOFTWARE_RESET, <<>>))

software_reset ==
    In("software_reset", send_command(SOFTWARE_RESET, <<>>) \o <<DelayMs(120)>>)

\* set_orientation with the two parameter bytes exchanged.
set_orientation_swapped ==
    In("set_orientation",
       IF orientation = "Potrait"
       THEN send_command(MEMORY_ACCESS_CONTROL, <<8>>)
       ELSE send_command(MEMORY_ACCESS_CONTROL, <<104>>))

set_orientation ==
    In("set_orientation",
       IF orientation = "Potrait"
       THEN send_command(MEMORY_ACCESS_CONTROL, <<104>>)
       ELSE send_command(MEMORY_ACCESS_CONTROL, <<8>>))

set_pixel_format ==
    In("set_pixel_format", send_command(PIXEL_FORMAT_SET, <<85>>))

set_sleep_mode(mode) ==
    In("set_sleep_mode",
       IF mode = "Off"
       THEN send_command(SLEEP_MODE_OFF, <<>>) \o <<DelayMs(150)>>
       ELSE send_command(SLEEP_MODE_ON, <<>>) \o <<DelayMs(50)>>)

set_display_mode(mode) ==
    In("set_display_mode",
       IF mode = "Off"
       THEN send_command(DISPLAY_OFF, <<>>) \o <<DelayMs(100)>>
       ELSE send_command(DISPLAY_ON, <<>>) \o <<DelayMs(100)>>)

set_invert_mode ==
    In("set_invert_mode",
       IF inverted = "Off"
       THEN send_command(INVERT_OFF, <<>>)
       ELSE send_command(INVERT_ON, <<>>))

\* initialize with set_pixel_format and set_orientation exchanged.
initialize_orientation_late ==
    hardware_reset \o software_reset \o set_pixel_format \o set_orientation
    \o set_invert_mode \o set_sleep_mode("Off") \o set_display_mode("On")

\* initialize with the software reset sent before the hardware reset.
initialize_reset_late ==
    software_reset \o hardware_reset \o set_orientation \o set_pixel_format
    \o set_invert_mode \o set_sleep_mode("Off") \o set_display_mode("On")

initialize ==
    hardware_reset \o software_reset \o set_orientation \o set_pixel_format
    \o set_invert_mode \o set_sleep_mode("Off") \o set_display_mode("On")

\* turn_on_backlight raising the select line before the power pin.
turn_on_backlight_dc_high ==
    In("turn_on_backlight", <<PinSet("dc", "high"), PinSet("power", "high")>>)

\* turn_on_backlight: self.power.set_high().map_err(Error::from_digital)?
turn_on_backlight == In("turn_on_backlight", <<PinSet("power", "high")>>)

(***************************************************************************)
(* Geometry (embedded_graphics_core), as write_pixels uses it              *)
(***************************************************************************)
Point(x, y) == [x |-> x, y |-> y]

Size(w, h) == [width |-> w, height |-> h]

Rectangle(top_left, size) == [top_left |-> top_left, size |-> size]

\* bottom_right as top_left + size, one past the last pixel.
bottom_right_past(r) ==
    IF r.size.width > 0 /\ r.size.height > 0
    THEN <<Point(r.top_left.x + r.size.width, r.top_left.y + r.size.height)>>
    ELSE <<>>

\* Rectangle::bottom_right: None (<<>>) for an empty rectangle, else Some (<<p>>)
bottom_right(r) ==
    IF r.size.width > 0 /\ r.size.height > 0
    THEN <<Point(r.top_left.x + r.size.width - 1, r.top_left.y + r.size.height - 1)>>
    ELSE <<>>

\* Rectangle::contains
contains(r, p) ==
    IF p.x >= r.top_left.x /\ p.y >= r.top_left.y
    THEN /\ bottom_right(r) # <<>>
         /\ p.x <= bottom_right(r)[1].x
         /\ p.y <= bottom_right(r)[1].y
    ELSE FALSE

\* size() with the two fields exchanged.
ili9341_size_swapped == Size(height, width)

\* OriginDimensions::size of the driver
ili9341_size == Size(width, height)

\* Dimensions::bounding_box of the driver
bounding_box == Rectangle(Point(0, 0), ili9341_size)

\* u16::try_from(i32)
U16Ok(v) == v >= 0 /\ v <= 65535

\* x >> 8 and x & 0xff of a u16
Hi(v) == v \div 256

Lo(v) == v % 256

\* set_window sending each coordinate low byte first.
set_window_lo_hi(x0, y0, x1, y1) ==
    send_command(COLUMN_ADDRESS_SET, <<Lo(x0), Hi(x0), Lo(x1), Hi(x1)>>)
    \o send_command(PAGE_ADDRESS_SET, <<Lo(y0), Hi(y0), Lo(y1), Hi(y1)>>)

\* Ili9341::set_window
set_window(x0, y0, x1, y1) ==
    send_command(COLUMN_ADDRESS_SET, <<Hi(x0), Lo(x0), Hi(x1), Lo(x1)>>)
    \o send_command(PAGE_ADDRESS_SET, <<Hi(y0), Lo(y0), Hi(y1), Lo(y1)>>)

\* The body of write_pixels after its assertions and conversions.
write_pixels_body(data, area) ==
    LET br == bottom_right(area)[1]
    IN  In("write_pixels",
           set_window(area.top_left.x, area.top_left.y, br.x, br.y)
           \o send_command(MEMORY_WRITE, <<>>)
           \o <<PinSet("dc", "high"), SpiWrite(data, "pixel")>>)

\* write_pixels without its second assertion.
write_pixels_top_left_only(data, area) ==
    IF ~contains(bounding_box, area.top_left) \/ bottom_right(area) = <<>>
    THEN [panic |-> TRUE, steps |-> <<>>]
    ELSE [panic |-> FALSE, steps |-> write_pixels_body(data, area)]

\* write_pixels: panic, or the calls it makes
write_pixels(data, area) ==
    IF ~contains(bounding_box, area.top_left)
    THEN [panic |-> TRUE, steps |-> <<>>]
    ELSE IF bottom_right(area) = <<>>
    THEN [panic |-> TRUE, steps |-> <<>>]
    ELSE IF ~contains(bounding_box, bottom_right(area)[1])
    THEN [panic |-> TRUE, steps |-> <<>>]
    ELSE IF ~(/\ U16Ok(area.top_left.x) /\ U16Ok(area.top_left.y)
              /\ U16Ok(bottom_right(area)[1].x) /\ U16Ok(bottom_right(area)[1].y))
    THEN [panic |-> TRUE, steps |-> <<>>]
    ELSE [panic |-> FALSE, steps |-> write_pixels_body(data, area)]

(***************************************************************************)
(* Inputs of the driver's operations                                       *)
(***************************************************************************)
\* Areas handed to write_pixels: inside the display, empty, and sticking out.
Areas ==
    {Rectangle(Point(10, 20), Size(21, 21)),
     Rectangle(Point(0, 0), Size(240, 240)),
     Rectangle(Point(200, 239), Size(40, 1)),
     Rectangle(Point(0, 0), Size(320, 240)),
     Rectangle(Point(256, 200), Size(44, 40)),
     Rectangle(Point(0, 256), Size(1, 64)),
     Rectangle(Point(0, 0), Size(0, 5)),
     Rectangle(Point(5, 5), Size(3, 0)),
     Rectangle(Point(-1, 0), Size(2, 2)),
     Rectangle(Point(0, -3), Size(2, 4)),
     Rectangle(Point(319, 239), Size(2, 1)),
     Rectangle(Point(400, 0), Size(1, 1)),
     Rectangle(Point(400, 400), Size(0, 0))}

\* Byte slices handed to write_pixels; their length is unrelated to the area.
Datas == {<<>>, <<248, 0>>, <<1, 2, 3>>}

\* No framebuffer: none constructed yet, or the construction panicked.
NoFb == [live |-> FALSE, size |-> Size(0, 0), bpp |-> 1]

\* The record of a public call: the operation, its arguments (for flush the
\* framebuffer, the slice under it and the point) and the level of the select
\* line when it was made.
NoCall == [op |-> "none", data |-> <<>>, area |-> Rectangle(Point(0, 0), Size(0, 0)),
           fb |-> NoFb, top_left |-> Point(0, 0), dc0 |-> "low"]

\* Points handed to flush: the origin, a point inside the display, its last
\* pixel, and a point outside it.
TopLefts == {Point(0, 0), Point(75, 10), Point(319, 239), Point(-1, 0)}

\* No operation is in progress and the calling context is alive.
Idle == todo = <<>> /\ result # Panic /\ (call.op = "none" \/ result # Pending)

(***************************************************************************)
(* The tasks of main.rs, as far as the driver and the framebuffer see them  *)
(***************************************************************************)
\* struct Dht12Reading, with whole numbers for the two f32 fields
Reading(humidity, temp_fahrenheit) ==
    [humidity |-> humidity, temp_fahrenheit |-> temp_fahrenheit]

NoReading == Reading(0, 0)

\* A task has panicked: the panic handler halts the program.
Halted ==
    mainPc = "panic" \/ renderPc = "panic" \/ sensorPc = "panic" \/ result = Panic

\* Readings read_dht12_task computes from the sensor's bytes: an ordinary one,
\* one with a wider temperature, and one beyond the range of i8 for the
\* humidity whose temperature is the first old_temperature_value.
Readings == {Reading(45, 72), Reading(45, 100), Reading(200, -100)}

\* `v as i8` for a whole f32 v: the cast saturates
as_i8(v) == IF v > 127 THEN 127 ELSE IF v < -128 THEN -128 ELSE v

\* The number of chars of "{v}F" and "{v}%" for an i8 v
value_str_chars(v) ==
    (IF v < 0 THEN 1 ELSE 0)
    + (IF v >= 100 \/ v <= -100 THEN 3 ELSE IF v >= 10 \/ v <= -10 THEN 2 ELSE 1)
    + 1

\* value_font_width
value_font_width == 8

\* A byte slice in run-length form: n bytes, all equal to b.  b = Rendered
\* stands for bytes left by the text and shape renderers of embedded-graphics,
\* whose font and outline data are not part of this repository.
Run(n, b) == [n |-> n, b |-> b]

Rendered == -1

\* temperature != old_temperature_value with no comparison: always true.
value_changed_always(v, old_v) == TRUE

\* temperature != old_temperature_value, humidity != old_humidity_value
value_changed(v, old_v) == v # old_v

\* The widest text of a value: "-128F" and "-128%".
ValueCells == value_str_chars(-128)

\* A character cell of a value field of the panel, value_font_width pixels wide
\* and 13 high: on when a flush of the loop has written it, v the value whose
\* text that flush carried.
Cell(on, v) == [on |-> on, v |-> v]

\* The value field after the flush whose window the bus received as f: the
\* cells inside the window hold the text of v, the others what they held.
\* origin is the top-left corner of the field.
Painted(cells, f, origin, v) ==
    [k \in 1..ValueCells |->
        IF /\ f.x0 <= origin.x + value_font_width * (k - 1)
           /\ origin.x + value_font_width * k - 1 <= f.x1
           /\ f.y0 <= origin.y
           /\ origin.y + 13 - 1 <= f.y1
        THEN Cell(TRUE, v)
        ELSE cells[k]]

\* The panel before the loop has flushed a value: the two fields hold what the
\* set-up drew, no value is shown and no reading has been received.
NoPanel ==
    [temperature |-> [k \in 1..ValueCells |-> Cell(FALSE, 0)],
     humidity |-> [k \in 1..ValueCells |-> Cell(FALSE, 0)],
     shown_t |-> Cell(FALSE, 0),
     shown_h |-> Cell(FALSE, 0),
     received |-> FALSE]

\* No task of main.rs exists: the driver or the framebuffer is used on its own.
AppUnused ==
    /\ mainPc = "unused"
    /\ renderPc = "unspawned"
    /\ renderIx = 0
    /\ sensorPc = "unspawned"
    /\ sensorVal = NoReading
    /\ chan = <<>>
    /\ cur = NoReading
    /\ old = NoReading
    /\ flushes = <<>>
    /\ caller = "-"
    /\ panel = NoPanel

RECURSIVE RunLen(_)
\* The length of the slice rs.
RunLen(rs) == IF rs = <<>> THEN 0 ELSE Head(rs).n + RunLen(Tail(rs))

RECURSIVE RunTake(_, _)
\* The first k bytes of the slice rs: &rs[..k]
RunTake(rs, k) ==
    IF k <= 0 \/ rs = <<>>
    THEN <<>>
    ELSE IF Head(rs).n <= k
    THEN <<Head(rs)>> \o RunTake(Tail(rs), k - Head(rs).n)
    ELSE <<Run(k, Head(rs).b)>>

RECURSIVE RunDrop(_, _)
\* The slice rs without its first k bytes: &rs[k..]
RunDrop(rs, k) ==
    IF k <= 0 \/ rs = <<>>
    THEN rs
    ELSE IF Head(rs).n <= k
    THEN RunDrop(Tail(rs), k - Head(rs).n)
    ELSE <<Run(Head(rs).n - k, Head(rs).b)>> \o Tail(rs)

\* A pixel storage one row of 320 pixels short of the cleared band.
FRAME_BUFFER_SIZE_row_short == 320 * 59 * 2

\* FRAME_BUFFER_SIZE
FRAME_BUFFER_SIZE == 320 * 60 * 2

\* PIXEL_DATA: [0; FRAME_BUFFER_SIZE]
PIXEL_DATA == <<Run(FRAME_BUFFER_SIZE, 0)>>

(***************************************************************************)
(* Framebuffer (framebuffer.rs)                                            *)
(***************************************************************************)
\* Largest width and height of a framebuffer, and largest coordinate drawn at.
MaxDim == 2

\* Largest length of the backing slice.
MaxLen == 8

\* size_of::<C::Bytes>() of the color types used: 1, 2 (Rgb565) and 3 bytes.
BytesPerPixel == {1, 2, 3}

\* Raw values of the colors of each type (0xF800 and 0x1234 for the 2-byte type).
Colors(bpp) ==
    CASE bpp = 1 -> {90}
      [] bpp = 2 -> {63488, 4660}
      [] bpp = 3 -> {1193046}

Sizes == {Size(w, h) : w \in 0..MaxDim, h \in 0..MaxDim}

\* Pixel(Point, color): the items of a draw_iter sequence
Pixel(pt, color) == [pt |-> pt, color |-> color]

Points == {Point(x, y) : x \in -1..MaxDim, y \in -1..MaxDim}

RECURSIVE Pow256(_)
Pow256(n) == IF n = 0 THEN 1 ELSE 256 * Pow256(n - 1)

\* The raw value least significant byte first.
to_le_bytes(color, bpp) == [k \in 1..bpp |-> (color \div Pow256(k - 1)) % 256]

\* ToBytes::to_be_bytes: the color's raw value, most significant byte first
to_be_bytes(color, bpp) == [k \in 1..bpp |-> (color \div Pow256(bpp - k)) % 256]

\* Framebuffer::pixel_count
pixel_count(sz) == sz.width * sz.height

\* The assertion with the width of a pixel left out.
new_fits_pixels(n, sz, bpp) == n >= pixel_count(sz)

\* The assertion of Framebuffer::new on a slice of n bytes
new_fits(n, sz, bpp) == n >= pixel_count(sz) * bpp

\* The constructor without its fill: the slice is taken as it is.
Zeroed_not_filled(bytes) == bytes

\* A fill that stops one byte before the end of the slice.
Zeroed_but_last(bytes) ==
    [i \in DOMAIN bytes |-> IF i = Len(bytes) THEN bytes[i] ELSE 0]

\* slice.fill(0)
Zeroed(bytes) == [i \in DOMAIN bytes |-> 0]

\* data() returning the whole slice.
framebuffer_data_whole == [panic |-> FALSE, bytes |-> storage]

\* Framebuffer::data: the slice &self.data[..pixel_count * BYTES_PER_PIXEL]
framebuffer_data ==
    LET n == pixel_count(fb.size) * fb.bpp
    IN  IF n > Len(storage)
        THEN [panic |-> TRUE, bytes |-> <<>>]
        ELSE [panic |-> FALSE, bytes |-> SubSeq(storage, 1, n)]

\* Framebuffer::size
framebuffer_size == fb.size

\* The byte offset draw_iter computes for the pixel at (x, y)
pixel_offset(sz, bpp, x, y) == (y * sz.width + x) * bpp

\* data[offset..offset + bpp].copy_from_slice(src)
copy_from_slice(bytes, offset, src) ==
    [i \in DOMAIN bytes |->
        IF i > offset /\ i <= offset + Len(src) THEN src[i - offset] ELSE bytes[i]]

\* The loop body without the test x >= width.
draw_iter_item_x_unchecked(bytes, sz, bpp, p) ==
    IF p.pt.x < 0 \/ p.pt.y < 0
    THEN [panic |-> FALSE, bytes |-> bytes]
    ELSE IF p.pt.y >= sz.height
    THEN [panic |-> FALSE, bytes |-> bytes]
    ELSE LET offset == pixel_offset(sz, bpp, p.pt.x, p.pt.y)
         IN  IF offset + bpp > Len(bytes)
             THEN [panic |-> TRUE, bytes |-> bytes]
             ELSE [panic |-> FALSE,
                   bytes |-> copy_from_slice(bytes, offset, to_be_bytes(p.color, bpp))]

\* One turn of the loop of draw_iter, for the item p
draw_iter_item(bytes, sz, bpp, p) ==
    IF p.pt.x < 0 \/ p.pt.y < 0
    THEN [panic |-> FALSE, bytes |-> bytes]
    ELSE IF p.pt.x >= sz.width \/ p.pt.y >= sz.height
    THEN [panic |-> FALSE, bytes |-> bytes]
    ELSE LET offset == pixel_offset(sz, bpp, p.pt.x, p.pt.y)
         IN  IF offset + bpp > Len(bytes)
             THEN [panic |-> TRUE, bytes |-> bytes]
             ELSE [panic |-> FALSE,
                   bytes |-> copy_from_slice(bytes, offset, to_be_bytes(p.color, bpp))]

\* The item lies inside a framebuffer of size sz.
InBounds(p, sz) ==
    p.pt.x >= 0 /\ p.pt.x < sz.width /\ p.pt.y >= 0 /\ p.pt.y < sz.height

NoPixel == Pixel(Point(0, 0), 0)

\* The record of a framebuffer step: what it was given, the bytes of the slice
\* before it, the framebuffer that was over the slice before it, and whether an
\* earlier item of the same draw_iter call lay outside the framebuffer.
FbStep(op, sz, bpp, p, skipped) ==
    [op |-> op, size |-> sz, bpp |-> bpp, pixel |-> p, before |-> storage,
     skipped |-> skipped, prev |-> fb]

\* The record before any framebuffer step.
FbUnusedLast ==
    [op |-> "none", size |-> Size(0, 0), bpp |-> 1, pixel |-> NoPixel,
     before |-> <<>>, skipped |-> FALSE, prev |-> NoFb]

\* No framebuffer is in use.
FbUnused ==
    /\ storage = <<>>
    /\ fb = NoFb
    /\ fbPc = "idle"
    /\ fbGiven = NoFb
    /\ fbLast = FbUnusedLast

\* The caller's slice before the first construction: any length, zeroed or not.
InitFb ==
    /\ \E n \in 0..MaxLen, fill \in {0, 170} : storage = [i \in 1..n |-> fill]
    /\ fb = NoFb
    /\ fbPc = "idle"
    /\ fbGiven = NoFb
    /\ fbLast = FbUnusedLast

\* Framebuffer::<C>::new(data, size) whose assertion holds
FbNew ==
    \E sz \in Sizes, bpp \in BytesPerPixel :
        /\ fbPc = "idle"
        /\ Idle
        /\ new_fits(Len(storage), sz, bpp)
        /\ storage' = Zeroed(storage)
        /\ fb' = [live |-> TRUE, size |-> sz, bpp |-> bpp]
        /\ fbGiven' = [live |-> TRUE, size |-> sz, bpp |-> bpp]
        /\ fbLast' = FbStep("new", sz, bpp, NoPixel, FALSE)
        /\ UNCHANGED fbPc
        /\ UNCHANGED <<drvVars, appVars>>

\* Framebuffer::<C>::new(data, size) whose assertion fails
FbNewPanic ==
    \E sz \in Sizes, bpp \in BytesPerPixel :
        /\ fbPc = "idle"
        /\ Idle
        /\ ~new_fits(Len(storage), sz, bpp)
        /\ fbPc' = "panic"
        /\ fb' = NoFb
        /\ fbGiven' = [live |-> FALSE, size |-> sz, bpp |-> bpp]
        /\ fbLast' = FbStep("new", sz, bpp, NoPixel, FALSE)
        /\ UNCHANGED storage
        /\ UNCHANGED <<drvVars, appVars>>

\* fb.draw_iter(pixels) is called
DrawIter ==
    /\ fbPc = "idle"
    /\ Idle
    /\ fb.live
    /\ fbPc' = "loop"
    /\ fbLast' = FbStep("draw_iter", fb.size, fb.bpp, NoPixel, FALSE)
    /\ UNCHANGED <<storage, fb, fbGiven>>
    /\ UNCHANGED <<drvVars, appVars>>

\* draw_iter takes the next item p of pixels
DrawIterItem ==
    \E pt \in Points, color \in Colors(fb.bpp) :
        LET p == Pixel(pt, color)
            r == draw_iter_item(storage, fb.size, fb.bpp, p)
        IN  /\ fbPc = "loop"
            /\ storage' = r.bytes
            /\ fbPc' = IF r.panic THEN "panic" ELSE "loop"
            /\ fbLast' = FbStep("item", fb.size, fb.bpp, p,
                                /\ fbLast.op = "item"
                                /\ (fbLast.skipped \/ ~InBounds(fbLast.pixel, fbGiven.size)))
            /\ UNCHANGED <<fb, fbGiven>>
            /\ UNCHANGED <<drvVars, appVars>>

\* pixels is exhausted: draw_iter returns Ok(())
DrawIterReturn ==
    /\ fbPc = "loop"
    /\ fbPc' = "idle"
    /\ fbLast' = FbStep("return", fb.size, fb.bpp, NoPixel, FALSE)
    /\ UNCHANGED <<storage, fb, fbGiven>>
    /\ UNCHANGED <<drvVars, appVars>>

NextFb ==
    \/ FbNew
    \/ FbNewPanic
    \/ DrawIter
    \/ DrawIterItem
    \/ DrawIterReturn

(***************************************************************************)
(* The driver as a state machine                                           *)
(***************************************************************************)
\* Ili9341::new(spi_device, dc, rst, power, config)
InitDrv ==
    /\ \E c \in Configs :
          /\ inverted = c.inverted_color
          /\ orientation = c.orientation
          /\ height = c.height
          /\ width = c.width
    /\ dc \in Levels
    /\ rst \in Levels
    /\ power \in Levels
    /\ call = NoCall
    /\ todo = <<>>
    /\ result = Pending
    /\ log = <<>>
    /\ resetDone = FALSE
    /\ FbUnused
    /\ AppUnused

\* The four capability calls of a hardware reset, one after the other, in l.
HwResetIn(l) ==
    \E i \in 1..(Len(l) - 3) :
        /\ l[i].step.op = "pin" /\ l[i].step.pin = "rst"
        /\ l[i].step.level = "low" /\ l[i].ok
        /\ l[i + 1].step.op = "delay"
        /\ l[i + 2].step.op = "pin" /\ l[i + 2].step.pin = "rst"
        /\ l[i + 2].step.level = "high" /\ l[i + 2].ok
        /\ l[i + 3].step.op = "delay"

\* A public operation is called: op makes the calls of steps.
Begin(op, data, area, steps) ==
    /\ call' = [op |-> op, data |-> data, area |-> area,
                fb |-> NoFb, top_left |-> NoCall.top_left, dc0 |-> dc]
    /\ todo' = steps
    /\ result' = Pending
    /\ log' = <<>>
    /\ UNCHANGED <<inverted, orientation, height, width, dc, rst, power, resetDone>>

\* display.initialize(delay)
Initialize ==
    /\ Idle
    /\ Begin("initialize", <<>>, NoCall.area, initialize)
    /\ UNCHANGED <<fbVars, appVars>>

\* display.turn_on_backlight()
TurnOnBacklight ==
    /\ Idle
    /\ Begin("turn_on_backlight", <<>>, NoCall.area, turn_on_backlight)
    /\ UNCHANGED <<fbVars, appVars>>

\* display.write_pixels(data, area) whose assertions hold
WritePixels ==
    \E data \in Datas, area \in Areas :
        /\ Idle
        /\ ~write_pixels(data, area).panic
        /\ Begin("write_pixels", data, area, write_pixels(data, area).steps)
        /\ UNCHANGED <<fbVars, appVars>>

\* display.write_pixels(data, area) whose assertions fail
WritePixelsPanic ==
    \E data \in Datas, area \in Areas :
        /\ write_pixels(data, area).panic
        /\ Idle
        /\ call' = [op |-> "write_pixels", data |-> data, area |-> area,
                    fb |-> NoFb, top_left |-> NoCall.top_left, dc0 |-> dc]
        /\ todo' = <<>>
        /\ result' = Panic
        /\ log' = <<>>
        /\ UNCHANGED <<inverted, orientation, height, width, dc, rst, power, resetDone>>
    /\ UNCHANGED <<fbVars, appVars>>

\* WritePixels::flush(fb, top_left): panic, or the calls it makes
flush(top_left) ==
    IF framebuffer_data.panic
    THEN [panic |-> TRUE, steps |-> <<>>]
    ELSE write_pixels(framebuffer_data.bytes, Rectangle(top_left, framebuffer_size))

\* display.flush(&fb, top_left) whose assertions hold
Flush ==
    \E top_left \in TopLefts :
        /\ Idle
        /\ fb.live /\ fbPc = "idle"
        /\ ~flush(top_left).panic
        /\ call' = [op |-> "flush", data |-> storage, area |-> NoCall.area,
                    fb |-> fb, top_left |-> top_left, dc0 |-> dc]
        /\ todo' = flush(top_left).steps
        /\ result' = Pending
        /\ log' = <<>>
        /\ UNCHANGED <<inverted, orientation, height, width, dc, rst, power, resetDone>>
        /\ UNCHANGED <<fbVars, appVars>>

\* display.flush(&fb, top_left) whose assertions fail
FlushPanic ==
    \E top_left \in TopLefts :
        /\ Idle
        /\ fb.live /\ fbPc = "idle"
        /\ flush(top_left).panic
        /\ call' = [op |-> "flush", data |-> storage, area |-> NoCall.area,
                    fb |-> fb, top_left |-> top_left, dc0 |-> dc]
        /\ todo' = <<>>
        /\ result' = Panic
        /\ log' = <<>>
        /\ UNCHANGED <<inverted, orientation, height, width, dc, rst, power, resetDone>>
        /\ UNCHANGED <<fbVars, appVars>>

\* WritePixels::write_pixels with the error handed back to the caller.
write_pixels_unwrapped_err_returned(r) == r

\* WritePixels::write_pixels for the driver: the driver's own write_pixels,
\* then unwrap_or_else(|_| panic!(..)) on what it returned
write_pixels_unwrapped(r) == IF r = Ok THEN Ok ELSE Panic

\* What the operation op hands to its caller when its body ended with r: flush
\* goes through WritePixels::write_pixels, the other operations return r.
Returned(op, r) == IF op = "flush" THEN write_pixels_unwrapped(r) ELSE r

\* A failed call whose error is not returned: the operation carries on.
AfterErrCarryOn(rest) == rest

\* What is left to do once a call has failed: `?` returns at once.
AfterErr(rest) == <<>>

\* The record of a capability call in the log: the call, the level of the select
\* line when it was made, and the error kind the capability returned ("-": none).
Done(step, err) ==
    [step |-> step, dc |-> dc, ok |-> (err = "-"), err |-> err, resetDone |-> resetDone]

\* The next capability call of the operation succeeds.
StepOk ==
    /\ todo # <<>>
    /\ ~Halted
    /\ LET s == Head(todo)
       IN  /\ dc' = IF s.op = "pin" /\ s.pin = "dc" THEN s.level ELSE dc
           /\ rst' = IF s.op = "pin" /\ s.pin = "rst" THEN s.level ELSE rst
           /\ power' = IF s.op = "pin" /\ s.pin = "power" THEN s.level ELSE power
           /\ log' = Append(log, Done(s, "-"))
    /\ todo' = Tail(todo)
    /\ result' = IF todo' = <<>> THEN Ok ELSE Pending
    /\ resetDone' = (resetDone \/ HwResetIn(log'))
    /\ UNCHANGED <<inverted, orientation, height, width, call>>
    /\ UNCHANGED <<fbVars, appVars>>

\* A pin write of the operation fails; the pin may have changed level or not.
StepPinErr ==
    /\ todo # <<>>
    /\ ~Halted
    /\ Head(todo).op = "pin"
    /\ \E k \in DigitalErrorKind :
          /\ result' = Returned(call.op, from_digital(k))
          /\ log' = Append(log, Done(Head(todo), k))
    /\ LET s == Head(todo)
       IN  /\ dc' \in IF s.pin = "dc" THEN {dc, s.level} ELSE {dc}
           /\ rst' \in IF s.pin = "rst" THEN {rst, s.level} ELSE {rst}
           /\ power' \in IF s.pin = "power" THEN {power, s.level} ELSE {power}
    /\ todo' = AfterErr(Tail(todo))
    /\ UNCHANGED <<inverted, orientation, height, width, call, resetDone>>
    /\ UNCHANGED <<fbVars, appVars>>

\* A bus write of the operation fails.
StepSpiErr ==
    /\ todo # <<>>
    /\ ~Halted
    /\ Head(todo).op = "spi"
    /\ \E k \in SpiErrorKind :
          /\ result' = Returned(call.op, from_spi(k))
          /\ log' = Append(log, Done(Head(todo), k))
    /\ todo' = AfterErr(Tail(todo))
    /\ UNCHANGED <<inverted, orientation, height, width, dc, rst, power, call, resetDone>>
    /\ UNCHANGED <<fbVars, appVars>>

NextDrv ==
    \/ Initialize
    \/ TurnOnBacklight
    \/ WritePixels
    \/ WritePixelsPanic
    \/ StepOk
    \/ StepPinErr
    \/ StepSpiErr

\* A driver in use, no framebuffer.
Spec == InitDrv /\ [][NextDrv]_vars

\* The driver constructed with the default configuration and never called.
DrvUnused ==
    /\ inverted = ConfigDefault.inverted_color
    /\ orientation = ConfigDefault.orientation
    /\ height = ConfigDefault.height
    /\ width = ConfigDefault.width
    /\ dc = "low"
    /\ rst = "low"
    /\ power = "low"
    /\ call = NoCall
    /\ todo = <<>>
    /\ result = Pending
    /\ log = <<>>
    /\ resetDone = FALSE

\* A framebuffer constructed, drawn into and constructed again over one slice.
InitFbAlone == InitFb /\ DrvUnused /\ AppUnused

SpecFb == InitFbAlone /\ [][NextFb]_vars

\* A slice of two bytes the caller has used before, and the driver constructed
\* with the default configuration.
InitFlush ==
    /\ storage = <<170, 170>>
    /\ fb = NoFb
    /\ fbPc = "idle"
    /\ fbGiven = NoFb
    /\ fbLast = FbUnusedLast
    /\ DrvUnused
    /\ AppUnused

NextFlush ==
    \/ FbNew
    \/ FbNewPanic
    \/ DrawIter
    \/ DrawIterItem
    \/ DrawIterReturn
    \/ Flush
    \/ FlushPanic
    \/ StepOk
    \/ StepPinErr
    \/ StepSpiErr

\* One task that constructs framebuffers over a slice, draws into them and
\* flushes them to the display.
SpecFlush == InitFlush /\ [][NextFlush]_vars

(***************************************************************************)
(* Views of the log                                                        *)
(***************************************************************************)
\* The bus writes of l, in order.
BusWrites(l) == SelectSeq(l, LAMBDA e : e.step.op = "spi")

\* The opcode bytes written to the bus in l, in order.
Opcodes(l) ==
    LET w == SelectSeq(l, LAMBDA e : e.step.op = "spi" /\ e.step.kind = "opcode")
    IN  [i \in DOMAIN w |-> w[i].step.bytes[1]]

\* The levels written to the reset pin in l, in order.
RstWrites(l) ==
    LET w == SelectSeq(l, LAMBDA e : e.step.op = "pin" /\ e.step.pin = "rst")
    IN  [i \in DOMAIN w |-> w[i].step.level]

\* The driver functions that made the calls of l, in order, each run of calls of
\* one function counted once.
RECURSIVE Functions(_)
Functions(l) ==
    IF l = <<>> THEN <<>>
    ELSE IF Len(l) > 1 /\ l[Len(l) - 1].step.fn = l[Len(l)].step.fn
    THEN Functions(SubSeq(l, 1, Len(l) - 1))
    ELSE Append(Functions(SubSeq(l, 1, Len(l) - 1)), l[Len(l)].step.fn)

IsPrefix(s, t) == Len(s) <= Len(t) /\ s = SubSeq(t, 1, Len(s))

AllOk(l) == \A i \in DOMAIN l : l[i].ok

\* The bus writes of l as <<what the bytes are, the bytes>>.
Wire(l) ==
    LET w == BusWrites(l)
    IN  [i \in DOMAIN w |-> <<w[i].step.kind, w[i].step.bytes>>]

(***************************************************************************)
(* The program (main.rs): main, render_task and read_dht12_task            *)
(***************************************************************************)
\* Framebuffer::new on a slice in run-length form: the assertion, then fill(0)
runs_new(rs, sz, bpp) ==
    IF ~new_fits(RunLen(rs), sz, bpp)
    THEN [panic |-> TRUE, bytes |-> rs]
    ELSE [panic |-> FALSE,
          bytes |-> IF RunLen(rs) = 0 THEN <<>> ELSE <<Run(RunLen(rs), 0)>>]

\* Framebuffer::data on a slice in run-length form
runs_data(rs, f) == RunTake(rs, pixel_count(f.size) * f.bpp)

\* A drawable that covers the framebuffer f drawn into it: every byte of data()
\* becomes b (0 for the black fill, Rendered for text and rounded rectangles).
runs_drawn(rs, f, b) ==
    LET used == pixel_count(f.size) * f.bpp
    IN  IF used = 0 THEN rs ELSE <<Run(used, b)>> \o RunDrop(rs, used)

\* WritePixels::flush of the framebuffer fb over the slice storage
runs_flush(top_left) ==
    write_pixels(runs_data(storage, fb), Rectangle(top_left, fb.size))

\* A statement of render_task before its loop.
Stmt(op, sz, at, b) == [op |-> op, size |-> sz, at |-> at, b |-> b]

\* The clearing of the screen with the backlight turned on before it.
ProgramClear_backlight_first ==
    << Stmt("turn_on_backlight", Size(0, 0), Point(0, 0), 0),
       Stmt("new", Size(320, 60), Point(0, 0), 0),
       Stmt("draw", Size(320, 60), Point(0, 0), 0),
       Stmt("flush", Size(0, 0), Point(0, 0 * 60), 0),
       Stmt("flush", Size(0, 0), Point(0, 1 * 60), 0),
       Stmt("flush", Size(0, 0), Point(0, 2 * 60), 0),
       Stmt("flush", Size(0, 0), Point(0, 3 * 60), 0) >>

\* render_task clears the screen: a 320 x 60 framebuffer filled with black,
\* flushed for i in 0..4 at (0, i * 60), then the backlight.
ProgramClear ==
    << Stmt("new", Size(320, 60), Point(0, 0), 0),
       Stmt("draw", Size(320, 60), Point(0, 0), 0),
       Stmt("flush", Size(0, 0), Point(0, 0 * 60), 0),
       Stmt("flush", Size(0, 0), Point(0, 1 * 60), 0),
       Stmt("flush", Size(0, 0), Point(0, 2 * 60), 0),
       Stmt("flush", Size(0, 0), Point(0, 3 * 60), 0),
       Stmt("turn_on_backlight", Size(0, 0), Point(0, 0), 0) >>

\* render_task from the title to the loop: the framebuffers it constructs, what
\* it draws into them and where it flushes them.
ProgramStatic ==
    << Stmt("new", Size(170, 20), Point(0, 0), 0),
       Stmt("draw", Size(170, 20), Point(0, 19), Rendered),
       Stmt("flush", Size(0, 0), Point(75, 10), 0),
       Stmt("new", Size(200, 30), Point(0, 0), 0),
       Stmt("draw", Size(200, 30), Point(0, 0), Rendered),
       Stmt("flush", Size(0, 0), Point(60, 40), 0),
       Stmt("new", Size(200, 30), Point(0, 0), 0),
       Stmt("draw", Size(200, 30), Point(0, 0), Rendered),
       Stmt("flush", Size(0, 0), Point(60, 90), 0),
       Stmt("new", Size(88, 13), Point(0, 0), 0),
       Stmt("draw", Size(88, 13), Point(0, 12), Rendered),
       Stmt("flush", Size(0, 0), Point(76, 50), 0),
       Stmt("new", Size(64, 13), Point(0, 0), 0),
       Stmt("draw", Size(64, 13), Point(0, 12), Rendered),
       Stmt("flush", Size(0, 0), Point(76, 100), 0),
       Stmt("new", Size(128, 25), Point(0, 0), 0),
       Stmt("draw", Size(128, 25), Point(0, 24), Rendered),
       Stmt("flush", Size(0, 0), Point(96, 160), 0) >>

\* render_task from its first statement to the loop.
Program == ProgramClear \o ProgramStatic

\* The statement render_task's set-up is at.
AtStmt(op) ==
    /\ renderPc = "setup"
    /\ renderIx \in DOMAIN Program
    /\ Program[renderIx].op = op

\* main is parked at its timer: the executor runs the other tasks.
MainYielded == mainPc = "timer"

\* main has awaited the operation op without carrying on.
Awaited_not(op) == call.op = op

\* The future of the operation op has completed: .await returns
Awaited(op) == call.op = op /\ todo = <<>> /\ result # Pending

\* What the bus received in a flush that returned: the window, decoded from the
\* two payloads, and the pixel bytes.
Flushed(l) ==
    LET w == Wire(l)
        c == w[2][2]
        r == w[4][2]
    IN  [x0 |-> c[1] * 256 + c[2], x1 |-> c[3] * 256 + c[4],
         y0 |-> r[1] * 256 + r[2], y1 |-> r[3] * 256 + r[4],
         bytes |-> w[6][2]]

\* main: rst, dc and bcklt created low, Ili9341::new with Config::default(),
\* PIXEL_DATA and CHANNEL as they are initialised.
InitMain ==
    /\ storage = PIXEL_DATA
    /\ fb = NoFb
    /\ fbPc = "idle"
    /\ fbGiven = NoFb
    /\ fbLast = FbUnusedLast
    /\ DrvUnused
    /\ mainPc = "start"
    /\ renderPc = "unspawned"
    /\ renderIx = 0
    /\ sensorPc = "unspawned"
    /\ sensorVal = NoReading
    /\ chan = <<>>
    /\ cur = NoReading
    /\ old = Reading(-30, -100)
    /\ flushes = <<>>
    /\ caller = "-"
    /\ panel = NoPanel

\* main: display.initialize(&mut Delay) is called
MainInitialize ==
    /\ mainPc = "start"
    /\ mainPc' = "initialize"
    /\ caller' = "main"
    /\ Begin("initialize", <<>>, NoCall.area, initialize)
    /\ UNCHANGED fbVars
    /\ UNCHANGED <<renderPc, renderIx, sensorPc, sensorVal, chan, cur, old, flushes, panel>>

\* main: .await.unwrap() of initialize, then CHANNEL.init
MainInitialized ==
    /\ mainPc = "initialize"
    /\ ~Halted
    /\ Awaited("initialize")
    /\ mainPc' = IF result.tag \in {"Spi", "Digital"} THEN "panic" ELSE "spawn_render"
    /\ UNCHANGED <<drvVars, fbVars>>
    /\ UNCHANGED <<renderPc, renderIx, sensorPc, sensorVal, chan, cur, old, flushes,
                   caller, panel>>

\* main: spawner.spawn(render_task(display, receiver))
MainSpawnRender ==
    /\ mainPc = "spawn_render"
    /\ mainPc' = "spawn_sensor"
    /\ renderPc' = "setup"
    /\ renderIx' = 1
    /\ UNCHANGED <<drvVars, fbVars>>
    /\ UNCHANGED <<sensorPc, sensorVal, chan, cur, old, flushes, caller, panel>>

\* main: spawner.spawn(read_dht12_task(i2c0, sender))
MainSpawnSensor ==
    /\ mainPc = "spawn_sensor"
    /\ mainPc' = "loop"
    /\ sensorPc' = "read"
    /\ UNCHANGED <<drvVars, fbVars>>
    /\ UNCHANGED <<renderPc, renderIx, sensorVal, chan, cur, old, flushes, caller, panel>>

\* main: Timer::after(5 s) is awaited
MainLoop ==
    /\ mainPc = "loop"
    /\ ~Halted
    /\ mainPc' = "timer"
    /\ UNCHANGED <<drvVars, fbVars>>
    /\ UNCHANGED <<renderPc, renderIx, sensorPc, sensorVal, chan, cur, old, flushes,
                   caller, panel>>

\* main: the timer expires
MainTimer ==
    /\ mainPc = "timer"
    /\ ~Halted
    /\ mainPc' = "loop"
    /\ UNCHANGED <<drvVars, fbVars>>
    /\ UNCHANGED <<renderPc, renderIx, sensorPc, sensorVal, chan, cur, old, flushes,
                   caller, panel>>

\* read_dht12_task: i2c.write_read(..).await.unwrap() and the arithmetic
SensorRead ==
    /\ sensorPc = "read"
    /\ MainYielded /\ ~Halted
    /\ \E r \in Readings : sensorVal' = r
    /\ sensorPc' = "send"
    /\ UNCHANGED <<drvVars, fbVars>>
    /\ UNCHANGED <<mainPc, renderPc, renderIx, chan, cur, old, flushes, caller, panel>>

\* read_dht12_task: i2c.write_read fails and unwrap panics
SensorReadPanic ==
    /\ sensorPc = "read"
    /\ MainYielded /\ ~Halted
    /\ sensorPc' = "panic"
    /\ UNCHANGED <<drvVars, fbVars>>
    /\ UNCHANGED <<mainPc, renderPc, renderIx, sensorVal, chan, cur, old, flushes,
                   caller, panel>>

\* read_dht12_task: sender.send(reading).await returns once the channel has room
SensorSend ==
    /\ sensorPc = "send"
    /\ MainYielded /\ ~Halted
    /\ Len(chan) < 2
    /\ chan' = Append(chan, sensorVal)
    /\ sensorPc' = "timer"
    /\ UNCHANGED <<drvVars, fbVars>>
    /\ UNCHANGED <<mainPc, renderPc, renderIx, sensorVal, cur, old, flushes, caller, panel>>

\* read_dht12_task: Timer::after(SAMPLING_PERIOD).await returns
SensorTimer ==
    /\ sensorPc = "timer"
    /\ MainYielded /\ ~Halted
    /\ sensorPc' = "read"
    /\ UNCHANGED <<drvVars, fbVars>>
    /\ UNCHANGED <<mainPc, renderPc, renderIx, sensorVal, chan, cur, old, flushes,
                   caller, panel>>

\* render_task constructs the framebuffer of size sz over pixel_data.
RenderFbNew(sz) ==
    LET r == runs_new(storage, sz, 2)
    IN  [panic |-> r.panic,
         storage |-> r.bytes,
         fb |-> IF r.panic THEN NoFb ELSE [live |-> TRUE, size |-> sz, bpp |-> 2]]

\* render_task: fb = Framebuffer::<Rgb565>::new(pixel_data, size)
RenderNew ==
    /\ AtStmt("new")
    /\ MainYielded /\ ~Halted
    /\ LET r == RenderFbNew(Program[renderIx].size)
       IN  /\ storage' = r.storage
           /\ fb' = r.fb
           /\ renderPc' = IF r.panic THEN "panic" ELSE "setup"
    /\ renderIx' = renderIx + 1
    /\ UNCHANGED <<fbPc, fbGiven, fbLast>>
    /\ UNCHANGED drvVars
    /\ UNCHANGED <<mainPc, sensorPc, sensorVal, chan, cur, old, flushes, caller, panel>>

\* render_task: a rectangle, a text or a rounded rectangle .draw(&mut fb).unwrap()
RenderDraw ==
    /\ AtStmt("draw")
    /\ MainYielded /\ ~Halted
    /\ storage' = runs_drawn(storage, fb, Program[renderIx].b)
    /\ renderIx' = renderIx + 1
    /\ UNCHANGED <<fb, fbPc, fbGiven, fbLast>>
    /\ UNCHANGED drvVars
    /\ UNCHANGED <<mainPc, renderPc, sensorPc, sensorVal, chan, cur, old, flushes,
                   caller, panel>>

\* display.flush(&fb, top_left) is called by render_task, which goes to pc when
\* the assertions of write_pixels hold.
RenderFlushCall(top_left, pc) ==
    /\ call' = [op |-> "flush", data |-> storage, area |-> NoCall.area,
                fb |-> fb, top_left |-> top_left, dc0 |-> dc]
    /\ caller' = "render"
    /\ log' = <<>>
    /\ IF runs_flush(top_left).panic
       THEN todo' = <<>> /\ result' = Panic /\ renderPc' = "panic"
       ELSE todo' = runs_flush(top_left).steps /\ result' = Pending /\ renderPc' = pc
    /\ UNCHANGED <<inverted, orientation, height, width, dc, rst, power, resetDone>>

\* render_task: display.flush(&fb, top_left).await begins
RenderFlush ==
    /\ AtStmt("flush")
    /\ MainYielded /\ ~Halted
    /\ RenderFlushCall(Program[renderIx].at, "await")
    /\ UNCHANGED fbVars
    /\ UNCHANGED <<mainPc, renderIx, sensorPc, sensorVal, chan, cur, old, flushes, panel>>

\* render_task: display.turn_on_backlight() is called
RenderBacklight ==
    /\ AtStmt("turn_on_backlight")
    /\ MainYielded /\ ~Halted
    /\ renderPc' = "await"
    /\ caller' = "render"
    /\ Begin("turn_on_backlight", <<>>, NoCall.area, turn_on_backlight)
    /\ UNCHANGED fbVars
    /\ UNCHANGED <<mainPc, renderIx, sensorPc, sensorVal, chan, cur, old, flushes, panel>>

\* render_task: the call of the statement returns; an Err is unwrapped
RenderReturned ==
    /\ renderPc = "await"
    /\ MainYielded /\ ~Halted
    /\ Awaited(Program[renderIx].op)
    /\ renderPc' = IF result # Ok THEN "panic"
                   ELSE IF renderIx = Len(Program) THEN "receive"
                   ELSE "setup"
    /\ renderIx' = IF result = Ok THEN renderIx + 1 ELSE renderIx
    /\ flushes' = IF result = Ok /\ call.op = "flush"
                  THEN Append(flushes, Flushed(log))
                  ELSE flushes
    /\ UNCHANGED <<drvVars, fbVars>>
    /\ UNCHANGED <<mainPc, sensorPc, sensorVal, chan, cur, old, caller, panel>>

\* render_task: receiver.receive().await returns a reading; the two casts
RenderReceive ==
    /\ renderPc = "receive"
    /\ MainYielded /\ ~Halted
    /\ chan # <<>>
    /\ cur' = Reading(as_i8(Head(chan).humidity), as_i8(Head(chan).temp_fahrenheit))
    /\ chan' = Tail(chan)
    /\ renderPc' = "temperature"
    /\ panel' = [panel EXCEPT !.received = TRUE]
    /\ UNCHANGED <<drvVars, fbVars>>
    /\ UNCHANGED <<mainPc, renderIx, sensorPc, sensorVal, old, flushes, caller>>

\* render_task: the value v is formatted, drawn into a framebuffer as wide as its
\* text and flushed at top_left; pc is where the task waits for the flush.
RenderValue(v, top_left, pc) ==
    LET r == RenderFbNew(Size(value_str_chars(v) * value_font_width, 13))
    IN  IF r.panic
        THEN /\ storage' = r.storage
             /\ fb' = r.fb
             /\ renderPc' = "panic"
             /\ UNCHANGED <<drvVars, caller>>
        ELSE /\ storage' = runs_drawn(r.storage, r.fb, Rendered)
             /\ fb' = r.fb
             /\ call' = [op |-> "flush", data |-> storage', area |-> NoCall.area,
                         fb |-> fb', top_left |-> top_left, dc0 |-> dc]
             /\ caller' = "render"
             /\ log' = <<>>
             /\ LET w == write_pixels(runs_data(storage', fb'),
                                      Rectangle(top_left, fb'.size))
                IN  IF w.panic
                    THEN todo' = <<>> /\ result' = Panic /\ renderPc' = "panic"
                    ELSE todo' = w.steps /\ result' = Pending /\ renderPc' = pc
             /\ UNCHANGED <<inverted, orientation, height, width, dc, rst, power,
                            resetDone>>

\* render_task: temperature != old_temperature_value
RenderTemperature ==
    /\ renderPc = "temperature"
    /\ MainYielded /\ ~Halted
    /\ value_changed(cur.temp_fahrenheit, old.temp_fahrenheit)
    /\ old' = [old EXCEPT !.temp_fahrenheit = cur.temp_fahrenheit]
    /\ RenderValue(cur.temp_fahrenheit, Point(220, 50), "temperature_flush")
    /\ UNCHANGED <<fbPc, fbGiven, fbLast>>
    /\ UNCHANGED <<mainPc, renderIx, sensorPc, sensorVal, chan, cur, flushes, panel>>

\* render_task: temperature == old_temperature_value
RenderTemperatureSame ==
    /\ renderPc = "temperature"
    /\ MainYielded /\ ~Halted
    /\ ~value_changed(cur.temp_fahrenheit, old.temp_fahrenheit)
    /\ renderPc' = "humidity"
    /\ UNCHANGED <<drvVars, fbVars>>
    /\ UNCHANGED <<mainPc, renderIx, sensorPc, sensorVal, chan, cur, old, flushes,
                   caller, panel>>

\* render_task: the flush of the temperature returns
RenderTemperatureFlushed ==
    /\ renderPc = "temperature_flush"
    /\ MainYielded /\ ~Halted
    /\ Awaited("flush")
    /\ renderPc' = IF result = Ok THEN "humidity" ELSE "panic"
    /\ panel' = IF result = Ok
                THEN [panel EXCEPT
                        !.temperature = Painted(@, Flushed(log), Point(220, 50),
                                                cur.temp_fahrenheit),
                        !.shown_t = Cell(TRUE, cur.temp_fahrenheit)]
                ELSE panel
    /\ UNCHANGED <<drvVars, fbVars>>
    /\ UNCHANGED <<mainPc, renderIx, sensorPc, sensorVal, chan, cur, old, flushes,
                   caller>>

\* render_task: humidity != old_humidity_value
RenderHumidity ==
    /\ renderPc = "humidity"
    /\ MainYielded /\ ~Halted
    /\ value_changed(cur.humidity, old.humidity)
    /\ old' = [old EXCEPT !.humidity = cur.humidity]
    /\ RenderValue(cur.humidity, Point(220, 100), "humidity_flush")
    /\ UNCHANGED <<fbPc, fbGiven, fbLast>>
    /\ UNCHANGED <<mainPc, renderIx, sensorPc, sensorVal, chan, cur, flushes, panel>>

\* render_task: humidity == old_humidity_value
RenderHumiditySame ==
    /\ renderPc = "humidity"
    /\ MainYielded /\ ~Halted
    /\ ~value_changed(cur.humidity, old.humidity)
    /\ renderPc' = "receive"
    /\ UNCHANGED <<drvVars, fbVars>>
    /\ UNCHANGED <<mainPc, renderIx, sensorPc, sensorVal, chan, cur, old, flushes,
                   caller, panel>>

\* render_task: the flush of the humidity returns
RenderHumidityFlushed ==
    /\ renderPc = "humidity_flush"
    /\ MainYielded /\ ~Halted
    /\ Awaited("flush")
    /\ renderPc' = IF result = Ok THEN "receive" ELSE "panic"
    /\ panel' = IF result = Ok
                THEN [panel EXCEPT
                        !.humidity = Painted(@, Flushed(log), Point(220, 100),
                                             cur.humidity),
                        !.shown_h = Cell(TRUE, cur.humidity)]
                ELSE panel
    /\ UNCHANGED <<drvVars, fbVars>>
    /\ UNCHANGED <<mainPc, renderIx, sensorPc, sensorVal, chan, cur, old, flushes,
                   caller>>

NextMain ==
    \/ MainInitialize
    \/ MainInitialized
    \/ MainSpawnRender
    \/ MainSpawnSensor
    \/ MainLoop
    \/ MainTimer
    \/ SensorRead
    \/ SensorReadPanic
    \/ SensorSend
    \/ SensorTimer
    \/ RenderNew
    \/ RenderDraw
    \/ RenderFlush
    \/ RenderBacklight
    \/ RenderReturned
    \/ RenderReceive
    \/ RenderTemperature
    \/ RenderTemperatureSame
    \/ RenderTemperatureFlushed
    \/ RenderHumidity
    \/ RenderHumiditySame
    \/ RenderHumidityFlushed
    \/ StepOk
    \/ StepPinErr
    \/ StepSpiErr

\* The program: main initialises the display and spawns the two tasks.
SpecMain == InitMain /\ [][NextMain]_vars

(***************************************************************************)
(* Claims about the driver                                                 *)
(***************************************************************************)
InitFunctions ==
    <<"hardware_reset", "software_reset", "set_orientation", "set_pixel_format",
      "set_invert_mode", "set_sleep_mode", "set_display_mode">>

InitOpcodes(invert) == <<1, 54, 58, invert, 17, 41>>

\* C1: when no pin or transport operation fails, initialize runs hardwareReset,
\* softwareReset, setOrientation, setPixelFormat, setInvertMode, setSleepMode(Off),
\* setDisplayMode(On) in this order, once each, and returns Ok; the opcodes on the
\* transport are 0x01, 0x36, 0x3A, 0x21 or 0x20, 0x11, 0x29 and no other; at every
\* moment of the call the opcodes written so far are the start of that list.
C1_InitializeOrder ==
    call.op = "initialize" =>
        /\ \E invert \in {32, 33} :
              /\ IsPrefix(Opcodes(log), InitOpcodes(invert))
              /\ IsPrefix(Functions(log), InitFunctions)
              /\ IsPrefix(RstWrites(log), <<"low", "high">>)
              /\ (AllOk(log) /\ todo = <<>>) =>
                    /\ result = Ok
                    /\ Opcodes(log) = InitOpcodes(invert)
                    /\ Functions(log) = InitFunctions
                    /\ RstWrites(log) = <<"low", "high">>

C1_Witness == call.op = "initialize" /\ result = Ok /\ Len(Opcodes(log)) = 6

\* C2: if a pin or transport operation fails during initialize, initialize returns
\* that first error and makes no later pin write, bus write or delay: the failed
\* call is the last one of the operation; the error is Digital(kind of the pin
\* error) for a pin and Spi(kind of the bus error) for a bus write.
C2_InitializeFirstError ==
    call.op = "initialize" =>
        /\ \A i \in DOMAIN log :
              ~log[i].ok =>
                  /\ i = Len(log)
                  /\ todo = <<>>
                  /\ result.kind = log[i].err
                  /\ log[i].step.op = "pin" => result.tag = "Digital"
                  /\ log[i].step.op = "spi" => result.tag = "Spi"
                  /\ log[i].step.op # "delay"
        /\ result.tag \in {"Digital", "Spi"} => (log # <<>> /\ ~log[Len(log)].ok)

C2_Witness ==
    /\ call.op = "initialize"
    /\ result = from_spi("Overrun")
    /\ Len(log) > 6
    /\ ~log[Len(log)].ok

\* C3: every opcode byte is written to the transport while the select line is low,
\* every parameter byte and every pixel byte while it is high.
C3_SelectLine ==
    \A i \in DOMAIN log :
        log[i].step.op = "spi" =>
            /\ log[i].step.kind = "opcode" => log[i].dc = "low"
            /\ (log[i].step.kind \in {"param", "pixel"} /\ log[i].step.bytes # <<>>)
                    => log[i].dc = "high"

C3_Witness ==
    /\ call.op = "write_pixels"
    /\ result = Ok
    /\ call.dc0 = "high"
    /\ log[Len(log)].step.kind = "pixel"
    /\ log[Len(log)].step.bytes # <<>>

\* C4: a successful writePixels(bytes, area), area inside the display with corners
\* (x0,y0) and (x1,y1), writes 0x2A, [x0>>8, x0&0xFF, x1>>8, x1&0xFF], 0x2B,
\* [y0>>8, y0&0xFF, y1>>8, y1&0xFF], 0x2C and then the bytes, whatever their
\* number; corners (10,20) and (30,40) give [0,10,0,30] and [0,20,0,40].
C4_WritePixelsWire ==
    (call.op = "write_pixels" /\ result = Ok) =>
        LET x0 == call.area.top_left.x
            y0 == call.area.top_left.y
            x1 == x0 + call.area.size.width - 1
            y1 == y0 + call.area.size.height - 1
        IN  /\ Wire(log) =
                 << <<"opcode", <<42>> >>,
                    <<"param", <<x0 \div 256, x0 % 256, x1 \div 256, x1 % 256>> >>,
                    <<"opcode", <<43>> >>,
                    <<"param", <<y0 \div 256, y0 % 256, y1 \div 256, y1 % 256>> >>,
                    <<"opcode", <<44>> >>,
                    <<"pixel", call.data>> >>
            /\ log[Len(log)].dc = "high"
            /\ (x0 = 10 /\ y0 = 20 /\ x1 = 30 /\ y1 = 40) =>
                  /\ Wire(log)[2][2] = <<0, 10, 0, 30>>
                  /\ Wire(log)[4][2] = <<0, 20, 0, 40>>

C4_Witness ==
    /\ call.op = "write_pixels"
    /\ result = Ok
    /\ call.area = Rectangle(Point(256, 200), Size(44, 40))
    /\ Len(call.data) = 3

\* The area is empty or not inside (0,0)-(width-1,height-1).
BadArea(a) ==
    \/ a.size.width = 0
    \/ a.size.height = 0
    \/ a.top_left.x < 0
    \/ a.top_left.y < 0
    \/ a.top_left.x + a.size.width - 1 > width - 1
    \/ a.top_left.y + a.size.height - 1 > height - 1

\* C5: writePixels with an area that is empty or not inside the display bounds
\* panics before any byte is written to the transport and before the select line
\* is changed.
C5_WritePixelsPrecondition ==
    (call.op = "write_pixels" /\ BadArea(call.area)) =>
        /\ result = Panic
        /\ log = <<>>
        /\ todo = <<>>
        /\ dc = call.dc0

C5_Witness ==
    /\ call.op = "write_pixels"
    /\ result = Panic
    /\ call.area = Rectangle(Point(319, 239), Size(2, 1))
    /\ call.data # <<>>

\* C6 as claimed: whatever public operations are called on a fresh driver, no
\* opcode byte is written before a hardware reset has completed.
C6_ResetBeforeAnyOpcode ==
    \A i \in DOMAIN log :
        (log[i].step.op = "spi" /\ log[i].step.kind = "opcode") => log[i].resetDone

\* C6: initialize writes no opcode byte before its hardware reset (reset low, wait,
\* reset high, wait) has completed.
C6_InitializeResetsFirst ==
    call.op = "initialize" =>
        \A i \in DOMAIN log :
            (log[i].step.op = "spi" /\ log[i].step.kind = "opcode")
                => HwResetIn(SubSeq(log, 1, i - 1))

C6_Witness ==
    /\ call.op = "initialize"
    /\ Opcodes(log) = <<1>>
    /\ resetDone

(***************************************************************************)
(* Claims about the framebuffer                                            *)
(***************************************************************************)
\* C7: Framebuffer construction panics if and only if the slice is shorter than
\* width*height*bytesPerPixel; when it succeeds the first
\* width*height*bytesPerPixel bytes are zero.  A 19200-byte slice is enough for
\* 320x30 pixels of 2 bytes, a 100-byte slice is not.
C7_ConstructIffFits ==
    /\ new_fits(19200, Size(320, 30), 2)
    /\ ~new_fits(100, Size(320, 30), 2)
    /\ fbLast.op = "new" =>
          LET used == fbLast.size.width * fbLast.size.height * fbLast.bpp
          IN  /\ (fbPc = "panic") <=> (Len(fbLast.before) < used)
              /\ fbPc # "panic" =>
                    /\ fb.live
                    /\ Len(storage) = Len(fbLast.before)
                    /\ \A i \in 1..used : storage[i] = 0

C7_Witness ==
    /\ fbLast.op = "new"
    /\ fbPc = "idle"
    /\ fbLast.size = Size(2, 2)
    /\ fbLast.bpp = 2
    /\ Len(storage) = 8
    /\ \E i \in 1..8 : fbLast.before[i] # 0

\* Byte k (from 1) of the big-endian encoding of a color of n bytes.
BigEndianByte(color, n, k) ==
    CASE n = 1 -> color
      [] n = 2 -> IF k = 1 THEN color \div 256 ELSE color % 256
      [] n = 3 -> IF k = 1 THEN color \div 65536
                  ELSE IF k = 2 THEN (color \div 256) % 256
                  ELSE color % 256

\* C8: drawing an in-bounds pixel overwrites exactly the bytesPerPixel bytes at
\* offset (y*width + x)*bytesPerPixel with the color's big-endian encoding and
\* leaves every other byte of the backing storage unchanged; 0xF800 at (0,0) in
\* a 1x1 framebuffer gives data() = [0xF8, 0x00].
C8_DrawInBounds ==
    (fbLast.op = "item" /\ InBounds(fbLast.pixel, fbGiven.size)) =>
        LET w == fbGiven.size.width
            n == fbGiven.bpp
            off == (fbLast.pixel.pt.y * w + fbLast.pixel.pt.x) * n
        IN  /\ fbPc = "loop"
            /\ Len(storage) = Len(fbLast.before)
            /\ \A i \in 1..Len(storage) :
                  storage[i] = IF i > off /\ i <= off + n
                               THEN BigEndianByte(fbLast.pixel.color, n, i - off)
                               ELSE fbLast.before[i]
            /\ (fbGiven.size = Size(1, 1) /\ n = 2 /\ fbLast.pixel.color = 63488) =>
                  framebuffer_data = [panic |-> FALSE, bytes |-> <<248, 0>>]

C8_Witness ==
    /\ fbLast.op = "item"
    /\ fbGiven.size = Size(2, 2)
    /\ fbGiven.bpp = 2
    /\ fbLast.pixel = Pixel(Point(1, 1), 4660)
    /\ fbLast.before = <<248, 0, 0, 0, 0, 0, 248, 0>>
    /\ storage = <<248, 0, 0, 0, 0, 0, 18, 52>>

\* C9: an item whose x or y is negative, or x >= width, or y >= height leaves the
\* buffer unchanged and raises no error, and the loop goes on: an in-bounds item
\* that follows skipped items in the same sequence is written.
C9_DrawOutOfBounds ==
    /\ (fbLast.op = "item" /\ ~InBounds(fbLast.pixel, fbGiven.size)) =>
          /\ storage = fbLast.before
          /\ fbPc = "loop"
    /\ (fbLast.op = "item" /\ InBounds(fbLast.pixel, fbGiven.size) /\ fbLast.skipped) =>
          /\ fbPc = "loop"
          /\ LET off == (fbLast.pixel.pt.y * fbGiven.size.width + fbLast.pixel.pt.x)
                            * fbGiven.bpp
             IN  \A k \in 1..fbGiven.bpp :
                     storage[off + k] = BigEndianByte(fbLast.pixel.color, fbGiven.bpp, k)

C9_Witness ==
    /\ fbLast.op = "item"
    /\ fbLast.skipped
    /\ InBounds(fbLast.pixel, fbGiven.size)
    /\ storage # fbLast.before

\* C10: after construction and any draws, data() is the first
\* width*height*bytesPerPixel bytes of the backing storage, whatever its
\* capacity, and size() is the (width, height) given at construction.
C10_DataIsUsedPrefix ==
    fb.live =>
        LET used == fbGiven.size.width * fbGiven.size.height * fbGiven.bpp
        IN  /\ ~framebuffer_data.panic
            /\ Len(framebuffer_data.bytes) = used
            /\ \A i \in 1..used : framebuffer_data.bytes[i] = storage[i]
            /\ framebuffer_size = fbGiven.size

C10_Witness ==
    /\ fb.live
    /\ fbLast.op = "item"
    /\ fbGiven.size = Size(1, 2)
    /\ fbGiven.bpp = 2
    /\ Len(storage) = 7
    /\ framebuffer_data.bytes = <<0, 0, 18, 52>>

\* C11: a framebuffer constructed over a slice that an earlier framebuffer of
\* any size and colour depth has drawn into exposes only zero bytes through
\* data(): nothing the earlier framebuffer wrote or the caller left in the
\* slice survives the construction.
C11_NewOverUsedStorage ==
    (fbLast.op = "new" /\ fbPc = "idle" /\ fb.live) =>
        /\ ~framebuffer_data.panic
        /\ Len(framebuffer_data.bytes) = pixel_count(fb.size) * fb.bpp
        /\ \A i \in 1..Len(framebuffer_data.bytes) : framebuffer_data.bytes[i] = 0

\* A second construction, with another size and another colour depth, over a
\* slice whose part now exposed by data() held a byte the first framebuffer drew.
C11_Witness ==
    /\ fbLast.op = "new" /\ fbPc = "idle" /\ fb.live
    /\ fbLast.prev.live
    /\ fbLast.prev.size # fb.size /\ fbLast.prev.bpp # fb.bpp
    /\ Len(framebuffer_data.bytes) > 0
    /\ \E i \in 1..Len(framebuffer_data.bytes) : fbLast.before[i] \notin {0, 170}
    /\ \A i \in 1..Len(framebuffer_data.bytes) : framebuffer_data.bytes[i] = 0

\* What flush of a framebuffer of size sz holding bytes, at top_left, puts on the
\* bus: the window (x, y)-(x + w - 1, y + h - 1), memory-write, the bytes.
FlushWire(top_left, sz, bytes) ==
    LET x0 == top_left.x
        y0 == top_left.y
        x1 == top_left.x + sz.width - 1
        y1 == top_left.y + sz.height - 1
    IN  << <<"opcode", <<42>> >>,
           <<"param", <<x0 \div 256, x0 % 256, x1 \div 256, x1 % 256>> >>,
           <<"opcode", <<43>> >>,
           <<"param", <<y0 \div 256, y0 % 256, y1 \div 256, y1 % 256>> >>,
           <<"opcode", <<44>> >>,
           <<"pixel", bytes>> >>

\* C12: flush(fb, topLeft) does what writePixels(fb.data(), Rectangle(topLeft,
\* fb.size())) does: it panics without touching the bus exactly when that
\* rectangle is empty or not inside the display, otherwise its bus writes are
\* the window (x, y)-(x + w - 1, y + h - 1), memory-write and the bytes of
\* fb.data(), all of them when it returns; it never hands an error to its
\* caller, a failed pin or bus write ends in a panic.
C12_Flush ==
    (call.op = "flush") =>
        LET used == SubSeq(call.data, 1, pixel_count(call.fb.size) * call.fb.bpp)
            area == Rectangle(call.top_left, call.fb.size)
        IN  /\ result \in {Pending, Ok, Panic}
            /\ (result = Panic /\ log = <<>>) <=> BadArea(area)
            /\ IsPrefix(Wire(log), FlushWire(call.top_left, call.fb.size, used))
            /\ (result = Ok) => (AllOk(log) /\ Len(Wire(log)) = 6)
            /\ (log # <<>> /\ ~log[Len(log)].ok) => result = Panic
            /\ (result = Pending) => AllOk(log)

\* A flush at (75, 10) of a framebuffer whose bytes were drawn: the window and
\* memory-write went out, the write of the pixel bytes failed, and the flush
\* panicked.
C12_Witness ==
    /\ call.op = "flush"
    /\ call.top_left = Point(75, 10)
    /\ call.fb.size = Size(2, 1)
    /\ Len(Wire(log)) = 6
    /\ Wire(log)[6][2] = <<90, 90>>
    /\ ~log[Len(log)].ok
    /\ result = Panic

\* What a step of turnOnBacklight, its call included, may do.
TurnOnBacklightStep ==
    (call'.op = "turn_on_backlight") =>
        /\ dc' = dc /\ rst' = rst /\ resetDone' = resetDone
        /\ <<inverted', orientation', height', width'>>
              = <<inverted, orientation, height, width>>
        /\ power' \in {power, "high"}
        /\ \A i \in DOMAIN log' :
              /\ log'[i].step.op = "pin"
              /\ log'[i].step.pin = "power"
              /\ log'[i].step.level = "high"
        /\ Len(log') <= 1
        /\ (result' = Ok) => (power' = "high" /\ AllOk(log') /\ Len(log') = 1)
        /\ (log' # <<>> /\ ~log'[1].ok) =>
              result' = [tag |-> "Digital", kind |-> log'[1].err]
        /\ result'.tag \in {"Pending", "Ok", "Digital"}

\* C13: turnOnBacklight can be called whenever no operation is in progress,
\* whatever the protocol state (never reset, reset, initialized, or left half
\* way by an initialize that failed); it makes one call, power high, and leaves
\* the bus, the select line, the reset pin and the configuration as they were;
\* when the pin fails it returns the pin error.
C13_TurnOnBacklight ==
    /\ [](Idle => ENABLED TurnOnBacklight)
    /\ [][TurnOnBacklightStep]_vars

\* turnOnBacklight returned Ok on a driver that has been through a hardware
\* reset and whose select line was high: both lines are as they were.
C13_Witness ==
    /\ call.op = "turn_on_backlight"
    /\ result = Ok
    /\ power = "high"
    /\ resetDone
    /\ call.dc0 = "high" /\ dc = "high"
    /\ rst = "high"

\* The wait, in milliseconds, that must follow the capability call s; 0: none.
WaitAfter(s) ==
    IF s.op = "pin" /\ s.pin = "rst"
    THEN (IF s.level = "low" THEN 1 ELSE 5)
    ELSE IF s.op = "spi" /\ s.kind = "opcode"
    THEN CASE s.bytes = <<SOFTWARE_RESET>> -> 120
           [] s.bytes = <<SLEEP_MODE_OFF>> -> 150
           [] s.bytes = <<SLEEP_MODE_ON>> -> 50
           [] s.bytes = <<DISPLAY_ON>> -> 100
           [] s.bytes = <<DISPLAY_OFF>> -> 100
           [] OTHER -> 0
    ELSE 0

\* In the calls of steps every call that must be followed by a wait is followed
\* at once by a request of that wait, and no other wait is requested.
WaitsIn(steps) ==
    \A i \in DOMAIN steps :
        /\ (WaitAfter(steps[i]) > 0) =>
              /\ i < Len(steps)
              /\ steps[i + 1].op = "delay"
              /\ steps[i + 1].ms = WaitAfter(steps[i])
        /\ (steps[i].op = "delay") =>
              /\ i > 1
              /\ WaitAfter(steps[i - 1]) = steps[i].ms

\* The calls made so far by the operation in progress.
StepsOf(l) == [i \in DOMAIN l |-> l[i].step]

\* C14: each wait is requested with its value right after the call it belongs
\* to and before any other pin or bus call: reset low, 1 ms, reset high, 5 ms;
\* software-reset opcode, 120 ms; sleep-off, 150 ms; sleep-on, 50 ms; display-on
\* and display-off, 100 ms. A call that failed is the last call of the
\* operation: no wait is requested after it.
C14_Waits ==
    /\ \A mode \in ModeState :
          /\ WaitsIn(set_sleep_mode(mode))
          /\ WaitsIn(set_display_mode(mode))
    /\ AllOk(log) => WaitsIn(StepsOf(log) \o todo)
    /\ \A i \in DOMAIN log :
          /\ (~log[i].ok) => (i = Len(log) /\ todo = <<>> /\ log[i].step.op # "delay")
          /\ (log[i].step.op = "delay") =>
                (i > 1 /\ log[i - 1].ok /\ WaitAfter(log[i - 1].step) = log[i].step.ms)
          /\ (log[i].ok /\ WaitAfter(log[i].step) > 0 /\ i < Len(log)) =>
                (log[i + 1].step.op = "delay"
                 /\ log[i + 1].step.ms = WaitAfter(log[i].step))

\* The waits of l, in order.
Waits(l) ==
    LET w == SelectSeq(l, LAMBDA e : e.step.op = "delay")
    IN  [i \in DOMAIN w |-> w[i].step.ms]

\* An initialize that returned Ok after its five waits.
C14_Witness ==
    /\ call.op = "initialize"
    /\ result = Ok
    /\ Waits(log) = <<1, 5, 120, 150, 100>>

\* The call s drives the select line to level.
IsDc(s, level) == s.op = "pin" /\ s.pin = "dc" /\ s.level = level

\* The call s writes an opcode / a payload to the bus.
IsOpcodeWrite(s) == s.op = "spi" /\ s.kind = "opcode"

IsParamWrite(s) == s.op = "spi" /\ s.kind = "param"

\* C15: sendCommand drives the select line low and writes the opcode in one
\* write of one byte; with a non-empty payload, and only then, it drives the
\* select line high and writes the payload in one write, otherwise it makes no
\* further call and the select line stays low. It stops at the first failed
\* call: no byte is written when driving the select line low failed, and after a
\* failed opcode write the select line is not raised and no payload is written.
C15_SendCommand ==
    /\ \A command \in {MEMORY_ACCESS_CONTROL, MEMORY_WRITE},
          data \in {<<>>, <<85>>, <<0, 10, 0, 30>>} :
          LET s == send_command(command, data)
          IN  /\ IsDc(s[1], "low")
              /\ s[2] = SpiWrite(<<command>>, "opcode")
              /\ (data = <<>>) <=> (Len(s) = 2)
              /\ (data # <<>>) <=>
                    (Len(s) = 4 /\ IsDc(s[3], "high") /\ s[4] = SpiWrite(data, "param"))
    /\ \A i \in DOMAIN log :
          LET e == log[i]
          IN  /\ IsOpcodeWrite(e.step) =>
                    /\ Len(e.step.bytes) = 1
                    /\ e.dc = "low"
                    /\ i > 1 /\ IsDc(log[i - 1].step, "low") /\ log[i - 1].ok
              /\ (IsDc(e.step, "low") /\ e.ok /\ i < Len(log)) =>
                    IsOpcodeWrite(log[i + 1].step)
              /\ IsParamWrite(e.step) =>
                    /\ e.step.bytes # <<>>
                    /\ e.dc = "high"
                    /\ i > 2
                    /\ IsDc(log[i - 1].step, "high") /\ log[i - 1].ok
                    /\ IsOpcodeWrite(log[i - 2].step) /\ log[i - 2].ok
              /\ (IsOpcodeWrite(e.step) /\ i < Len(log)
                  /\ ~IsDc(log[i + 1].step, "high")) => log[i + 1].dc = "low"
              /\ (~e.ok) => (i = Len(log) /\ todo = <<>>)
              /\ (~e.ok /\ IsOpcodeWrite(e.step)) => dc = "low"

\* The write of the memory-access-control opcode failed: the select line is
\* low, the payload was not written and the operation is over.
C15_Witness ==
    /\ call.op = "initialize"
    /\ log # <<>>
    /\ log[Len(log)].step = [SpiWrite(<<MEMORY_ACCESS_CONTROL>>, "opcode")
                               EXCEPT !.fn = "set_orientation"]
    /\ ~log[Len(log)].ok
    /\ dc = "low"
    /\ todo = <<>>
    /\ result.tag = "Spi"

\* The payload written for the opcode at place i of the bus writes w, <<>> when
\* the next bus write is not a payload.
PayloadOf(w, i) ==
    IF i < Len(w) /\ w[i + 1][1] = "param" THEN w[i + 1][2] ELSE <<>>

OkBefore(l, i) == \A j \in 1..(i - 1) : l[j].ok

\* C17: writePixels stops at the first failed call and tries nothing again: its
\* opcodes are a prefix of 0x2A, 0x2B, 0x2C, each written at most once; 0x2B is
\* written only after column-address-set went through, 0x2C only after both
\* window commands went through, and pixel bytes are streamed only after 0x2C
\* was written and the select line was raised.
C17_WritePixelsAborts ==
    (call.op = "write_pixels") =>
        /\ IsPrefix(Opcodes(log), <<42, 43, 44>>)
        /\ (~AllOk(log)) =>
              (todo = <<>> /\ result.tag \in {"Spi", "Digital"} /\ OkBefore(log, Len(log)))
        /\ \A i \in DOMAIN log :
              LET s == log[i].step
              IN  /\ (IsOpcodeWrite(s) /\ s.bytes = <<43>>) =>
                        /\ OkBefore(log, i)
                        /\ Len(SelectSeq(SubSeq(log, 1, i),
                                         LAMBDA e : IsParamWrite(e.step))) = 1
                  /\ (IsOpcodeWrite(s) /\ s.bytes = <<44>>) =>
                        /\ OkBefore(log, i)
                        /\ Len(SelectSeq(SubSeq(log, 1, i),
                                         LAMBDA e : IsParamWrite(e.step))) = 2
                  /\ (s.op = "spi" /\ s.kind = "pixel") =>
                        /\ OkBefore(log, i)
                        /\ Opcodes(SubSeq(log, 1, i)) = <<42, 43, 44>>
                        /\ IsDc(log[i - 1].step, "high")
                        /\ i = Len(log)

\* The payload of page-address-set failed: 0x2A and 0x2B were written once,
\* 0x2C and the pixel bytes were not, and the error was returned.
C17_Witness ==
    /\ call.op = "write_pixels"
    /\ call.data # <<>>
    /\ Opcodes(log) = <<42, 43>>
    /\ IsParamWrite(log[Len(log)].step)
    /\ ~log[Len(log)].ok
    /\ todo = <<>>
    /\ result.tag = "Spi"

\* The driver holds the configuration c and size() answers with its dimensions.
HoldsConfig(c) ==
    /\ inverted = c.inverted_color
    /\ orientation = c.orientation
    /\ height = c.height
    /\ width = c.width
    /\ ili9341_size = Size(c.width, c.height)
    /\ (c = ConfigDefault) =>
          /\ ili9341_size = Size(320, 240)
          /\ orientation = "Landscape"
          /\ inverted = "On"

\* C19: the configuration a driver is constructed with stays as it is: no
\* operation, successful or failed, changes width, height, orientation or the
\* inverted flag, and size() is (width, height) of that configuration in every
\* state; for the default configuration 320 x 240, landscape, inverted On.
C19_ConfigImmutable ==
    \A c \in Configs :
        (/\ inverted = c.inverted_color /\ orientation = c.orientation
         /\ height = c.height /\ width = c.width) => [](HoldsConfig(c))

\* A portrait driver that has been reset, after a write_pixels that failed on
\* the bus: size() is still 240 x 320.
C19_Witness ==
    /\ resetDone
    /\ call.op = "write_pixels"
    /\ result.tag = "Spi"
    /\ orientation = "Potrait"
    /\ inverted = "Off"
    /\ ili9341_size = Size(240, 320)

\* A step in which a driver operation is called.
Begins == todo' # <<>> /\ log' = <<>> /\ <<call, todo, log>> # <<call', todo', log'>>

\* The bus writes of l keep each command together: the write after an opcode
\* that carries a payload is its payload, the write after memory-write is the
\* pixel stream, and payloads and pixels follow nothing else.
CommandsWhole(l) ==
    LET w == Wire(l)
    IN  \A i \in DOMAIN w :
            /\ (w[i][1] = "opcode" /\ w[i][2][1] \in {42, 43, 54, 58} /\ i < Len(w)) =>
                  w[i + 1][1] = "param"
            /\ (w[i] = <<"opcode", <<44>> >> /\ i < Len(w)) => w[i + 1][1] = "pixel"
            /\ (w[i][1] = "param") =>
                  (i > 1 /\ w[i - 1][1] = "opcode" /\ w[i - 1][2][1] \in {42, 43, 54, 58})
            /\ (w[i][1] = "pixel") => (i > 1 /\ w[i - 1] = <<"opcode", <<44>> >>)

\* C18, in every state: initialize is main's call and is over before
\* render_task and read_dht12_task exist; every other call is render_task's;
\* the bus writes of the operation in progress keep each command together,
\* whatever the other tasks do in between.
C18_OneCaller ==
    /\ (call.op = "initialize") => caller = "main"
    /\ (call.op = "initialize" /\ (todo # <<>> \/ result = Pending)) =>
          (renderPc = "unspawned" /\ sensorPc = "unspawned")
    /\ (call.op \notin {"none", "initialize"}) =>
          (caller = "render" /\ call.op \in {"flush", "turn_on_backlight"})
    /\ (renderPc # "unspawned") => resetDone
    /\ CommandsWhole(log)

\* C18, in every step: a driver operation is called only when none is in
\* progress; render_task is spawned only after initialize has returned Ok; once
\* it is spawned, every call is made by it.
C18_OneAtATime ==
    /\ Begins => (todo = <<>> /\ (call.op = "none" \/ result # Pending))
    /\ (renderPc = "unspawned" /\ renderPc' # "unspawned") =>
          (call.op = "initialize" /\ todo = <<>> /\ result = Ok)
    /\ (Begins /\ renderPc # "unspawned") => caller' = "render"

\* C18: in the running program at most one driver operation is in progress at
\* any time, although the sensor task and the main loop run between its bus
\* writes and waits: initialize completes in main before render_task is spawned
\* and render_task is the only caller afterwards, so no opcode is written
\* between an opcode and its payload or between memory-write and its pixels.
C18_OneOperationAtATime == []C18_OneCaller /\ [][C18_OneAtATime]_vars

\* render_task is in a flush between the column-address-set opcode and its
\* payload; the sensor task has filled the channel and main's timer has just
\* expired.
C18_Witness ==
    /\ call.op = "flush"
    /\ caller = "render"
    /\ todo # <<>>
    /\ Wire(log) = << <<"opcode", <<42>> >> >>
    /\ Len(chan) = 2
    /\ sensorPc = "send"
    /\ mainPc = "loop"

\* The four windows that clear the screen: 320 x 60 at y = 0, 60, 120, 180.
ClearWindows ==
    [i \in 1..4 |-> [x0 |-> 0, x1 |-> 319, y0 |-> 60 * (i - 1), y1 |-> 60 * (i - 1) + 59]]

\* Every pixel of the 320 x 240 screen lies in exactly one of the four windows.
ClearCoversScreen ==
    \A x \in 0..(ConfigDefault.width - 1), y \in 0..(ConfigDefault.height - 1) :
        Cardinality({i \in 1..4 : /\ ClearWindows[i].x0 <= x /\ x <= ClearWindows[i].x1
                                  /\ ClearWindows[i].y0 <= y /\ y <= ClearWindows[i].y1}) = 1

\* C20: the first four flushes render_task completes send the windows 320 x 60
\* at y = 0, 60, 120 and 180, each with 320 * 60 * 2 zero bytes; the four
\* windows cover every pixel of the 320 x 240 screen exactly once; the backlight
\* pin is driven, and is high, only after the four flushes have completed.
C20_ClearThenBacklight ==
    /\ \A i \in 1..4 :
          (i <= Len(flushes)) =>
              /\ <<flushes[i].x0, flushes[i].x1, flushes[i].y0, flushes[i].y1>>
                    = <<ClearWindows[i].x0, ClearWindows[i].x1,
                        ClearWindows[i].y0, ClearWindows[i].y1>>
              /\ flushes[i].bytes = <<Run(320 * 60 * 2, 0)>>
    /\ ClearCoversScreen
    /\ (power = "high") => Len(flushes) >= 4
    /\ (call.op = "turn_on_backlight") => Len(flushes) >= 4
    /\ (Len(flushes) < 4) =>
          \A i \in DOMAIN log : ~(log[i].step.op = "pin" /\ log[i].step.pin = "power")

\* The backlight has just been turned on: exactly the four clearing flushes
\* have completed.
C20_Witness ==
    /\ call.op = "turn_on_backlight"
    /\ result = Ok
    /\ power = "high"
    /\ Len(flushes) = 4
    /\ flushes[4].y0 = 180 /\ flushes[4].y1 = 239
    /\ flushes[4].bytes = <<Run(38400, 0)>>

(***************************************************************************)
(* C21: a value is flushed if and only if it differs from the last flushed *)
(***************************************************************************)
\* render_task decides about the value v of the reading it received: it leaves
\* the program counter at and either begins a flush at top_left, with bus
\* traffic to come, or goes on to next with the driver untouched.
Decides(at, shown, v, top_left, flushing, next) ==
    (renderPc = at /\ renderPc' # at /\ shown.on) =>
        IF v # shown.v
        THEN /\ renderPc' = flushing
             /\ call'.op = "flush" /\ call'.top_left = top_left
             /\ log' = <<>> /\ todo' # <<>>
        ELSE /\ renderPc' = next
             /\ UNCHANGED drvVars

\* While render_task is in its loop and not waiting for a flush it has begun,
\* no capability call is pending and none is made: the log of calls made does
\* not grow.
LoopTraffic ==
    (renderPc \in {"receive", "temperature", "humidity"}) =>
        (todo = <<>> /\ Len(log') <= Len(log))

ShowsOnly(cells, shown) ==
    \A k \in 1..ValueCells : cells[k].on => (shown.on /\ cells[k].v = shown.v)

\* C22: after the flush of a new temperature or humidity no character cell of
\* a previously displayed value remains on the panel, whatever the old and the
\* new value are, a new value with a shorter text included.
C22_PreviousTextErased ==
    /\ ShowsOnly(panel.temperature, panel.shown_t)
    /\ ShowsOnly(panel.humidity, panel.shown_h)

(***************************************************************************)
(* C23: the panel shows the values of the last processed reading           *)
(***************************************************************************)
\* render_task has processed every reading it received, and at least one: it
\* is back at receiver.receive().
ProcessedReading == renderPc = "receive" /\ panel.received

\* C23: once render_task has processed at least one reading, the temperature
\* and the humidity flushed last are those of the reading processed last,
\* whatever the readings were, a first temperature of -100 included.
C23_ShowsLastReading ==
    ProcessedReading =>
        /\ panel.shown_t.on /\ panel.shown_t.v = cur.temp_fahrenheit
        /\ panel.shown_h.on /\ panel.shown_h.v = cur.humidity

(***************************************************************************)
(* C24: render_task never fails a precondition                             *)
(***************************************************************************)
\* The framebuffer of size sz fits the pixel storage and its flush at top_left
\* passes the assertions and conversions of write_pixels.
Accepted(sz, top_left) ==
    /\ new_fits(RunLen(storage), sz, 2)
    /\ ~write_pixels(<<>>, Rectangle(top_left, sz)).panic
    /\ sz.width > 0 /\ sz.height > 0
    /\ top_left.x >= 0 /\ top_left.x + sz.width <= 320
    /\ top_left.y >= 0 /\ top_left.y + sz.height <= 240

\* The size of the framebuffer of the value v
ValueSize(v) == Size(value_str_chars(v) * value_font_width, 13)

\* render_task has panicked in Framebuffer::new or in an assertion of
\* write_pixels, and not by unwrapping an error of the bus or of a pin.
PreconditionFailed ==
    /\ renderPc = "panic"
    /\ \/ ~fb.live
       \/ call.op = "flush" /\ caller = "render" /\ log = <<>>

\* C24: render_task never fails a precondition.  The storage stays 38400 bytes
\* long, every framebuffer constructed needs no more than that, every flush
\* called is of a non-empty area inside the 320 x 240 display, and when the
\* loop waits for a reading this is so for the two flushes of whatever reading
\* comes, every value of an i8 taken.
C24_NoPreconditionFailure ==
    /\ ~PreconditionFailed
    /\ RunLen(storage) = 38400
    /\ fb.live => pixel_count(fb.size) * fb.bpp <= 38400
    /\ (call.op = "flush") => Accepted(call.fb.size, call.top_left)
    /\ (renderPc = "receive") =>
          \A v \in -128..127 :
              /\ Accepted(ValueSize(v), Point(220, 50))
              /\ Accepted(ValueSize(v), Point(220, 100))

\* The widest value the readings give, -100F in a framebuffer 40 pixels wide,
\* has been flushed at (220, 50) and the loop has come back to receive.
C24_Witness ==
    /\ renderPc = "receive"
    /\ panel.shown_t = Cell(TRUE, -100)
    /\ panel.temperature[ValueCells] = Cell(TRUE, -100)
    /\ ~Halted

(***************************************************************************)
(* C25: the bytes a flush streams and the window it sets                   *)
(***************************************************************************)
\* The number of pixels of the window the bus received in the flush f
WindowPixels(f) == (f.x1 - f.x0 + 1) * (f.y1 - f.y0 + 1)

\* The parameter set_pixel_format sends: 0x55, 16 bits for each pixel.
PixelFormatSent ==
    {set_pixel_format[i].bytes :
        i \in {j \in DOMAIN set_pixel_format : set_pixel_format[j].kind = "param"}}

\* C25: a flush that returns has set a window of width x height pixels and
\* streamed width * height * bytesPerPixel bytes.  For a color of 2 bytes that
\* is 2 * (x1 - x0 + 1) * (y1 - y0 + 1), what the window takes in the 16-bit
\* format initialize selects, so the controller does not wrap around; for a
\* color of another width the count differs from it.
C25_StreamedBytes ==
    /\ PixelFormatSent = {<<85>>}
    /\ (call.op = "flush" /\ result = Ok) =>
          LET f == Flushed(log)
              sz == call.fb.size
          IN  /\ f.x0 = call.top_left.x /\ f.y0 = call.top_left.y
              /\ WindowPixels(f) = sz.width * sz.height
              /\ Len(f.bytes) = sz.width * sz.height * call.fb.bpp
              /\ (call.fb.bpp = 2) => Len(f.bytes) = 2 * WindowPixels(f)
              /\ (call.fb.bpp # 2) => Len(f.bytes) # 2 * WindowPixels(f)

\* A framebuffer of one pixel of a 2-byte color has been flushed at (319, 239):
\* the window is that one pixel and two bytes were streamed.
C25_Witness ==
    /\ call.op = "flush" /\ result = Ok
    /\ call.fb.bpp = 2
    /\ call.top_left = Point(319, 239)
    /\ Flushed(log).x1 = 319 /\ Flushed(log).y1 = 239
    /\ Len(Flushed(log).bytes) = 2

(***************************************************************************)
(* C26: what Framebuffer::new does to the caller's storage                 *)
(***************************************************************************)
\* C26: right after a construction that succeeded every byte of the caller's
\* storage is zero, the bytes after the first width * height * bytesPerPixel
\* that data() does not hand out included, and the storage is as long as it
\* was; right after a construction that failed the storage is what it was.
C26_NewZeroesWholeStorage ==
    (fbLast.op = "new") =>
        /\ Len(storage) = Len(fbLast.before)
        /\ fbGiven.live =>
              /\ \A i \in DOMAIN storage : storage[i] = 0
              /\ framebuffer_data.bytes
                    = [i \in 1..(pixel_count(fb.size) * fb.bpp) |-> 0]
        /\ ~fbGiven.live => (fbPc = "panic" /\ storage = fbLast.before)

\* A framebuffer of one pixel of one byte has been constructed over a slice of
\* eight bytes that held 170: the seven bytes data() leaves out are zero too.
C26_Witness ==
    /\ fbLast.op = "new" /\ fbGiven.live
    /\ fbLast.before = <<170, 170, 170, 170, 170, 170, 170, 170>>
    /\ fb.size = Size(1, 1) /\ fb.bpp = 1
    /\ Len(framebuffer_data.bytes) = 1
    /\ storage = <<0, 0, 0, 0, 0, 0, 0, 0>>

====
